---- MODULE Spec2Model ----
(***************************************************************************)
(* Model of the Lambda notifier                                            *)
(*   src/Automating-AWS-Infrastructure-Change-Notifications-to-Slack-      *)
(*   with-AWS-Lambda.py                                                    *)
(* lambda_handler, extract_resource_details and send_slack_notification,   *)
(* over JSON-shaped events.  The source's nested f-string (line 127) makes *)
(* the module load only on Python 3.12 or later; the model is of that      *)
(* build.                                                                  *)
(***************************************************************************)
EXTENDS Integers, Sequences, FiniteSets, TLC

(***************************************************************************)
(* JSON values as Python sees them after json.loads.  A string is a        *)
(* sequence of text fragments: the strings the code looks inside (the      *)
(* actor, the webhook URL) are spelled character by character, the strings *)
(* it only compares or interpolates whole are a single fragment.  A        *)
(* character a TLA+ string cannot hold is written by its code point        *)
(* (U+0060 is the backquote).                                              *)
(***************************************************************************)
Null == [t |-> "null"]

Num(n) == [t |-> "num", n |-> n]

Str(s) == [t |-> "str", s |-> s]

List(items) == [t |-> "list", items |-> items]

Map(m) == [t |-> "map", m |-> m]

EmptyMap == Map(<<>>)

EmptyList == List(<<>>)

EmptyStr == Str(<<>>)

\* A local name that no assignment has bound yet.
Unbound == [t |-> "unbound"]

\* The outcome of evaluating an expression: a value, or an exception raised.
Ok(v) == [exc |-> "", val |-> v]

Raise(e) == [exc |-> e, val |-> Null]

\* bool(v): Python truth value of a JSON value.
Truthy(v) ==
    CASE v.t = "null" -> FALSE
      [] v.t = "num"  -> v.n # 0
      [] v.t = "str"  -> v.s # <<>>
      [] v.t = "list" -> v.items # <<>>
      [] v.t = "map"  -> DOMAIN v.m # {}
      [] OTHER        -> FALSE

\* obj.get(key, default): dict.get, AttributeError on anything but a dict.
Get(obj, key, default) ==
    IF obj.t = "map"
    THEN Ok(IF key \in DOMAIN obj.m THEN obj.m[key] ELSE default)
    ELSE Raise("AttributeError")

\* obj[0]: the first item of a list, the first character of a string;
\* IndexError when empty, KeyError on a dict (JSON keys are strings),
\* TypeError on None or a number.
First(obj) ==
    CASE obj.t = "list" -> IF obj.items # <<>> THEN Ok(obj.items[1]) ELSE Raise("IndexError")
      [] obj.t = "str"  -> IF obj.s # <<>> THEN Ok(Str(<<obj.s[1]>>)) ELSE Raise("IndexError")
      [] obj.t = "map"  -> Raise("KeyError")
      [] OTHER          -> Raise("TypeError")

\* The text of a fragment sequence as one string.
RECURSIVE Join(_)
Join(s) == IF s = <<>> THEN "" ELSE Head(s) \o Join(Tail(s))

\* sub occurs in s at position i (1-based), character by character.
OccursAt(sub, s, i) ==
    /\ i + Len(sub) - 1 <= Len(s)
    /\ \A k \in 1..Len(sub) : s[i + k - 1] = sub[k]

\* str.__contains__: sub is a substring of s.
Contains(s, sub) == \E i \in 1..(Len(s) + 1) : OccursAt(sub, s, i)

\* (sub in obj) for a string sub: substring test on a string, membership on a
\* list, key test on a dict, TypeError on None or a number.
In(sub, obj) ==
    CASE obj.t = "str"  -> Ok(Contains(obj.s, sub))
      [] obj.t = "list" -> Ok(\E i \in 1..Len(obj.items) : obj.items[i] = Str(sub))
      [] obj.t = "map"  -> Ok(Join(sub) \in DOMAIN obj.m)
      [] OTHER          -> Raise("TypeError")

\* str.split(sep) for a one-character sep: the pieces between the separators.
RECURSIVE Split(_, _)
Split(s, sep) ==
    IF \A i \in 1..Len(s) : s[i] # sep
    THEN <<s>>
    ELSE LET i == CHOOSE j \in 1..Len(s) : s[j] = sep /\ \A k \in 1..(j - 1) : s[k] # sep
         IN  <<SubSeq(s, 1, i - 1)>> \o Split(SubSeq(s, i + 1, Len(s)), sep)

\* seq[-1]
Last(seq) == seq[Len(seq)]

\* The outcome of extract_resource_details: the pair returned, or the
\* exception that left the function.
Returned(key, value) == [exc |-> "", key |-> key, value |-> value]

Failed(e) == [exc |-> e, key |-> EmptyStr, value |-> EmptyStr]

\* event_name in [names]: list membership compares with ==, so only a string
\* equal to one of the names is a member.
NameIn(event_name, names) == event_name.t = "str" /\ Join(event_name.s) \in names

\* resourceKey = label; resourceValue = source.get(field, "")
DirectField(label, source, field) ==
    LET v == Get(source, field, EmptyStr)
    IN  IF v.exc # "" THEN Failed(v.exc) ELSE Returned(Str(<<label>>), v.val)

\* info = source.get(outer, {}); resourceKey = label;
\* resourceValue = info.get(field, "")
NestedField(label, source, outer, field) ==
    LET info == Get(source, outer, EmptyMap)
    IN  IF info.exc # "" THEN Failed(info.exc)
        ELSE DirectField(label, info.val, field)

\* if items: resourceKey = label; resourceValue = items[0].get(field, "")
\* and the initial ("", "") of lines 18-19 otherwise.
FirstItemField(label, items, field) ==
    IF ~Truthy(items) THEN Returned(EmptyStr, EmptyStr)
    ELSE LET item == First(items)
         IN  IF item.exc # "" THEN Failed(item.exc)
             ELSE DirectField(label, item.val, field)

\* instances_set = response_elements.get("instancesSet", {});
\* items = instances_set.get("items", []); then the first item's instanceId.
InstancesRule(response_elements) ==
    LET instances_set == Get(response_elements, "instancesSet", EmptyMap)
    IN  IF instances_set.exc # "" THEN Failed(instances_set.exc)
        ELSE LET items == Get(instances_set.val, "items", EmptyList)
             IN  IF items.exc # "" THEN Failed(items.exc)
                 ELSE FirstItemField("Instance_ID", items.val, "instanceId")

\* load_balancers = response_elements.get("loadBalancers", []); then the
\* first one's loadBalancerName.
LoadBalancerRule(response_elements) ==
    LET load_balancers == Get(response_elements, "loadBalancers", EmptyList)
    IN  IF load_balancers.exc # "" THEN Failed(load_balancers.exc)
        ELSE FirstItemField("LoadBalancer_ID", load_balancers.val, "loadBalancerName")

\* A final else branch that reads the response's id for every other event.
CatchAllRule(response_elements, request_parameters) ==
    DirectField("Resource", response_elements, "id")

\* No branch of the if/elif chain taken: resourceKey and resourceValue keep
\* their initial values.
NoRule(response_elements, request_parameters) == Returned(EmptyStr, EmptyStr)

\* extract_resource_details(detail, event_name); detail is a dict here (the
\* handler has already called detail.get on it).
extract_resource_details(detail, event_name) ==
    LET response_elements  == Get(detail, "responseElements", EmptyMap).val
        request_parameters == Get(detail, "requestParameters", EmptyMap).val
    IN  CASE NameIn(event_name, {"TerminateInstances", "RunInstances"}) ->
               InstancesRule(response_elements)
          [] NameIn(event_name, {"CreateDBInstance", "DeleteDBInstance"}) ->
               DirectField("DB_Instance_ID", response_elements, "dBInstanceIdentifier")
          [] NameIn(event_name, {"CreateLoadBalancer", "DeleteLoadBalancer"}) ->
               LoadBalancerRule(response_elements)
          [] NameIn(event_name, {"CreateUser", "DeleteUser"}) ->
               NestedField("User_ID", response_elements, "user", "userName")
          [] NameIn(event_name, {"CreateGroup", "DeleteGroup"}) ->
               NestedField("Group", response_elements, "group", "groupName")
          [] NameIn(event_name, {"CreateRole", "DeleteRole"}) ->
               NestedField("Role", response_elements, "role", "roleName")
          [] NameIn(event_name, {"CreatePolicy", "DeletePolicy"}) ->
               NestedField("Policy", response_elements, "policy", "policyName")
          [] NameIn(event_name, {"CreateCluster", "DeleteCluster"}) ->
               NestedField("Cluster", response_elements, "cluster", "clusterName")
          [] NameIn(event_name, {"CreateRestApi", "DeleteRestApi"}) ->
               DirectField("RestApi", response_elements, "id")
          [] NameIn(event_name, {"CreatePipeline", "DeletePipeline"}) ->
               NestedField("Pipeline", response_elements, "pipeline", "pipelineName")
          [] NameIn(event_name, {"CreateProject", "DeleteProject", "UpdateProject"}) ->
               NestedField("Project", response_elements, "project", "projectName")
          [] NameIn(event_name, {"CreateApplication", "DeleteApplication"}) ->
               NestedField("Application", response_elements, "application", "applicationName")
          [] NameIn(event_name, {"CreateHostedZone", "DeleteHostedZone"}) ->
               NestedField("HostedZone", response_elements, "hostedZone", "id")
          [] NameIn(event_name, {"CreateSecret"}) ->
               DirectField("Secret_ID", request_parameters, "name")
          [] NameIn(event_name, {"DeleteSecret"}) ->
               DirectField("Secret_ID", response_elements, "name")
          [] NameIn(event_name, {"CreateRepository", "DeleteRepository"}) ->
               NestedField("Repository Name", response_elements, "repository", "repositoryName")
          [] NameIn(event_name, {"CreateAutoScalingGroup", "DeleteAutoScalingGroup"}) ->
               DirectField("AutoScalingGroup", response_elements, "autoScalingGroupName")
          [] OTHER -> NoRule(response_elements, request_parameters)

\* repr(v), as str() of a list or dict shows its members.  A dict's entries
\* are shown in one fixed order (Python shows them in insertion order, which a
\* JSON value here does not record).
RECURSIVE Repr(_), ReprItems(_), ReprEntries(_, _)
Repr(v) ==
    CASE v.t = "null" -> <<"None">>
      [] v.t = "num"  -> <<ToString(v.n)>>
      [] v.t = "str"  -> <<"'">> \o v.s \o <<"'">>
      [] v.t = "list" -> <<"[">> \o ReprItems(v.items) \o <<"]">>
      [] v.t = "map"  -> <<"{">> \o ReprEntries(v.m, DOMAIN v.m) \o <<"}">>
      [] OTHER        -> <<>>

ReprItems(items) ==
    IF items = <<>> THEN <<>>
    ELSE Repr(Head(items))
         \o (IF Tail(items) = <<>> THEN <<>> ELSE <<", ">> \o ReprItems(Tail(items)))

ReprEntries(m, keys) ==
    IF keys = {} THEN <<>>
    ELSE LET k == CHOOSE x \in keys : TRUE
         IN  <<"'", k, "'", ": ">> \o Repr(m[k])
             \o (IF keys = {k} THEN <<>> ELSE <<", ">> \o ReprEntries(m, keys \ {k}))

\* str(v), what an f-string field {v} interpolates.
Format(v) == IF v.t = "str" THEN v.s ELSE Repr(v)

\* The resource line of the f-string (line 127): present only when both
\* resourceKey and resourceValue are true values.
ResourceLine(resourceKey, resourceValue) ==
    IF Truthy(resourceKey) /\ Truthy(resourceValue)
    THEN <<"U+1F6E0 ">> \o Format(resourceKey) \o <<": U+0060">> \o Format(resourceValue)
         \o <<"U+0060", "\n">>
    ELSE <<>>

\* slack_message["text"], lines 122-130.
MessageText(user_name, event_source, event_name, resourceKey, resourceValue, aws_region, event_time) ==
    <<"*AWS Infrastructure Change Detected! U+1F6A8*", "\n">>
    \o <<"U+1F464 User: U+0060">> \o Format(user_name) \o <<"U+0060", "\n">>
    \o <<"U+1F6E0 Event Source: U+0060">> \o Format(event_source) \o <<"U+0060", "\n">>
    \o <<"U+1F6E0 Event: U+0060">> \o Format(event_name) \o <<"U+0060", "\n">>
    \o ResourceLine(resourceKey, resourceValue)
    \o <<"U+1F30D Region: U+0060">> \o Format(aws_region) \o <<"U+0060", "\n">>
    \o <<"U+1F552 Time: U+0060">> \o Format(event_time) \o <<"U+0060", "\n">>

\* json.dumps of a string's text: a line break becomes the two characters \n
\* and (ensure_ascii) every non-ASCII character its \u escapes.
JsonEscape(text) ==
    [i \in 1..Len(text) |->
        CASE text[i] = "\n" -> "\\n"
          [] text[i] = "*AWS Infrastructure Change Detected! U+1F6A8*" ->
               "*AWS Infrastructure Change Detected! \\ud83d\\udea8*"
          [] text[i] = "U+1F464 User: U+0060" -> "\\ud83d\\udc64 User: U+0060"
          [] text[i] = "U+1F6E0 Event Source: U+0060" -> "\\ud83d\\udee0 Event Source: U+0060"
          [] text[i] = "U+1F6E0 Event: U+0060" -> "\\ud83d\\udee0 Event: U+0060"
          [] text[i] = "U+1F6E0 " -> "\\ud83d\\udee0 "
          [] text[i] = "U+1F30D Region: U+0060" -> "\\ud83c\\udf0d Region: U+0060"
          [] text[i] = "U+1F552 Time: U+0060" -> "\\ud83d\\udd52 Time: U+0060"
          [] OTHER -> text[i]]

\* json.dumps(slack_message): the request body of the POST.
DumpMessage(slack_message) ==
    <<"{\"text\": \"">> \o JsonEscape(slack_message.text) \o <<"\"}">>

\* user_name = user_identity.get("userName")
\*             or user_identity.get("principalId", "UnknownUser")
ChooseIdentity(user_identity) ==
    LET userName == Get(user_identity, "userName", Null)
    IN  IF userName.exc # "" THEN userName
        ELSE IF Truthy(userName.val) THEN userName
        ELSE Get(user_identity, "principalId", Str(<<"UnknownUser">>))

\* user_name.split(":")[1]: the piece after the first colon.
AfterFirstColon(user_name) ==
    IF user_name.t = "str"
    THEN Ok(Str(Split(user_name.s, ":")[2]))
    ELSE Raise("AttributeError")

\* user_name.split(":")[-1]; AttributeError on a list or a dict.
AfterLastColon(user_name) ==
    IF user_name.t = "str"
    THEN Ok(Str(Last(Split(user_name.s, ":"))))
    ELSE Raise("AttributeError")

\* Lines 108-110: the actor the filter and the message use.
ResolveUser(user_identity) ==
    LET chosen == ChooseIdentity(user_identity)
    IN  IF chosen.exc # "" THEN chosen
        ELSE LET colon == In(<<":">>, chosen.val)
             IN  IF colon.exc # "" THEN Raise(colon.exc)
                 ELSE IF colon.val THEN AfterLastColon(chosen.val)
                 ELSE chosen

\* The notification marker of line 113.
Marker == <<"@", "x", "y", "z", ".", "c", "o", "m">>

\* A filter that looks for the "@" alone.
PassesAnyAddress(user_name) == In(<<"@">>, user_name)

\* Line 113 negated: the actor passes the filter.
PassesFilter(user_name) == In(Marker, user_name)

\* urllib.request.Request(url, ...): the constructor parses the URL's scheme,
\* the text before the first ":" when it is non-empty and holds no "/", and
\* raises ValueError ("unknown url type") when there is none.
HasScheme(url) ==
    LET parts == Split(url.s, ":")
    IN  /\ Len(parts) >= 2
        /\ parts[1] # <<>>
        /\ \A i \in 1..Len(parts[1]) : parts[1][i] # "/"

\* An except clause that names only the lookup errors.
CaughtLookupOnly(e) == e \in {"KeyError", "IndexError"}

\* except Exception (line 144): every exception the handler's body can
\* raise is an Exception.
Caught(e) ==
    e \in {"AttributeError", "TypeError", "KeyError", "IndexError", "ValueError"}

\* A delivery that tries again when the POST fails.
RetryOnFailure(outcome) == IF outcome = "ok" THEN "return" ELSE "post"

\* The retry policy of send_slack_notification: the except clause of lines
\* 165-166 logs and returns, whatever the outcome of the POST.
AfterPost(outcome) == "return"

(***************************************************************************)
(* The events the handler is invoked with.                                 *)
(***************************************************************************)
\* Longest actor string, in pieces.
MaxParts == 3

\* A key a JSON object does not hold.
Absent == [t |-> "absent"]

\* The JSON object with the fields of f that are not Absent.
Obj(f) == Map([k \in {x \in DOMAIN f : f[x] # Absent} |-> f[k]])

\* The pieces actor strings are made of.
Pieces == {<<"b">>, <<":">>, Marker, <<"@", "x", "y", "z">>}

RECURSIVE Texts(_)
Texts(n) ==
    IF n = 0 THEN {<<>>}
    ELSE Texts(n - 1) \cup {t \o p : t \in Texts(n - 1), p \in Pieces}

ActorStrings == {Str(t) : t \in Texts(MaxParts)}

\* Values that are no JSON object.
NonMaps == {Null, Num(7), Str(<<"x">>), EmptyList}

\* userName / principalId values that are no plain string.
OddNames ==
    {Null, Num(0), Num(7), List(<<Str(<<":">>)>>), List(<<Str(Marker)>>),
     Map("@xyz.com" :> Num(1)), Map(":" :> Num(1))}

Identities ==
    NonMaps
    \cup {Obj([userName |-> u, principalId |-> Absent]) : u \in ActorStrings \cup OddNames \cup {Absent}}
    \cup {Obj([userName |-> Absent, principalId |-> q]) : q \in ActorStrings \cup OddNames}
    \cup {Obj([userName |-> u, principalId |-> q]) :
            u \in {Null, EmptyStr, Num(0), Str(<<"b">>), Str(<<"b">> \o Marker)},
            q \in {Null, Str(<<"A", ":", "b">> \o Marker), Str(<<"A", ":", "b">>), Str(Marker)}}

MatchingUser == Obj([userName |-> Str(<<"b">> \o Marker)])

OtherUser == Obj([userName |-> Str(<<"b", "@", "o", ".", "c", "o", "m">>)])

\* What a leaf of responseElements / requestParameters may hold.
Leaves == {Absent, Null, EmptyStr, Str(<<"res-1">>), Num(0), Num(7), EmptyList, EmptyMap}

\* Shapes of an object expected to hold field.
Holding(field, values) == NonMaps \cup {Obj(field :> v) : v \in values}

\* Shapes of a list expected to hold objects with U+0060fieldU+0060.
Lists(field) ==
    {Absent, Null, Str(<<"a", "b">>), Num(0), Num(7), EmptyList, EmptyMap, Map("a" :> Null)}
    \cup {List(<<item>>) : item \in Holding(field, Leaves)}
    \cup {List(<<Obj(field :> Str(<<"res-1">>)), Obj(field :> Str(<<"res-2">>))>>)}

Direct(field) == {Absent} \cup Holding(field, Leaves)

Nested(outer, field) == {Absent} \cup Holding(outer, {Absent} \cup Holding(field, Leaves))

InstanceShapes == {Absent} \cup Holding("instancesSet", {Absent} \cup Holding("items", Lists("instanceId")))

LoadBalancerShapes == {Absent} \cup Holding("loadBalancers", Lists("loadBalancerName"))

Change(names, res, reqs) ==
    {[eventName |-> Str(<<n>>), responseElements |-> re, requestParameters |-> rp] :
        n \in names, re \in res, rp \in reqs}

\* Event names of no rule: other strings, and values that are no string.
UnregisteredNames ==
    {Absent, Null, Num(7), Str(<<"UnknownThing">>), Str(<<"runinstances">>),
     Str(<<"Run", "Instances", "2">>), List(<<Str(<<"RunInstances">>)>>)}

Changes ==
    Change({"TerminateInstances", "RunInstances"}, InstanceShapes, {Absent})
    \cup Change({"CreateDBInstance", "DeleteDBInstance"}, Direct("dBInstanceIdentifier"), {Absent})
    \cup Change({"CreateLoadBalancer", "DeleteLoadBalancer"}, LoadBalancerShapes, {Absent})
    \cup Change({"CreateUser", "DeleteUser"}, Nested("user", "userName"), {Absent})
    \cup Change({"CreateGroup", "DeleteGroup"}, Nested("group", "groupName"), {Absent})
    \cup Change({"CreateRole", "DeleteRole"}, Nested("role", "roleName"), {Absent})
    \cup Change({"CreatePolicy", "DeletePolicy"}, Nested("policy", "policyName"), {Absent})
    \cup Change({"CreateCluster", "DeleteCluster"}, Nested("cluster", "clusterName"), {Absent})
    \cup Change({"CreateRestApi", "DeleteRestApi"}, Direct("id"), {Absent})
    \cup Change({"CreatePipeline", "DeletePipeline"}, Nested("pipeline", "pipelineName"), {Absent})
    \cup Change({"CreateProject", "DeleteProject", "UpdateProject"}, Nested("project", "projectName"), {Absent})
    \cup Change({"CreateApplication", "DeleteApplication"}, Nested("application", "applicationName"), {Absent})
    \cup Change({"CreateHostedZone", "DeleteHostedZone"}, Nested("hostedZone", "id"), {Absent})
    \cup Change({"CreateSecret"}, {Absent, Null, Obj("name" :> Str(<<"res-2">>))}, Direct("name"))
    \cup Change({"DeleteSecret"}, Direct("name"), {Absent, Null, Obj("name" :> Str(<<"res-2">>))})
    \cup Change({"CreateRepository", "DeleteRepository"}, Nested("repository", "repositoryName"), {Absent})
    \cup Change({"CreateAutoScalingGroup", "DeleteAutoScalingGroup"}, Direct("autoScalingGroupName"), {Absent})
    \cup {[eventName |-> n, responseElements |-> re, requestParameters |-> rp] :
            n \in UnregisteredNames,
            re \in InstanceShapes \cup Direct("id") \cup Nested("user", "userName"),
            rp \in {Absent, Null}}

\* A launch of one instance, as CloudTrail reports it.
Launch ==
    [eventName |-> Str(<<"RunInstances">>),
     responseElements |-> Obj("instancesSet" :> Obj("items" :> List(<<Obj("instanceId" :> Str(<<"i-0abc">>))>>))),
     requestParameters |-> Absent]

SampleChanges ==
    {Launch,
     [eventName |-> Absent, responseElements |-> Absent, requestParameters |-> Absent],
     [eventName |-> Str(<<"UnknownThing">>), responseElements |-> Null, requestParameters |-> Absent],
     [eventName |-> Str(<<"CreateDBInstance">>), responseElements |-> EmptyMap, requestParameters |-> Absent]}

\* The event whose detail holds change c by identity id, with the fields f.
EventOf(id, c, f) ==
    Obj("detail" :> Obj([userIdentity |-> id, eventName |-> c.eventName,
                         responseElements |-> c.responseElements,
                         requestParameters |-> c.requestParameters,
                         awsRegion |-> f.awsRegion, eventTime |-> f.eventTime,
                         eventSource |-> f.eventSource]))

Stamped ==
    [awsRegion |-> Str(<<"us-east-1">>), eventTime |-> Str(<<"2024-01-01T00:00:00Z">>),
     eventSource |-> Str(<<"ec2.amazonaws.com">>)]

FieldValues == {Absent, Null, Str(<<"us-east-1">>), EmptyMap}

Events ==
    \* the event, or its detail, is no object or is empty
    NonMaps \cup {EmptyMap} \cup {Obj("detail" :> d) : d \in NonMaps \cup {EmptyMap}}
    \* every identity, a few changes
    \cup {EventOf(id, c, Stamped) : id \in Identities \cup {Absent}, c \in SampleChanges}
    \* every change, by an actor that passes the filter
    \cup {EventOf(MatchingUser, c, Stamped) : c \in Changes}
    \* every shape of the three plain fields
    \cup {EventOf(id, Launch, f) :
            id \in {MatchingUser, OtherUser},
            f \in [awsRegion : FieldValues, eventTime : FieldValues, eventSource : FieldValues]}

\* SLACK_WEBHOOK_URL: unset (or empty), a URL without a scheme, a webhook URL.
Urls ==
    {EmptyStr,
     Str(<<"hooks.slack.com", "/", "services", "/", "T0">>),
     Str(<<"https", ":", "/", "/", "hooks.slack.com", "/", "services", "/", "T0">>)}

\* What urlopen can do: a 2xx response, an HTTPError for any other response,
\* a URLError when the network fails.
PostOutcomes == {"ok", "HTTPError", "URLError"}

VARIABLES
    SLACK_WEBHOOK_URL,  \* module global, read from the environment at import
    pc,                 \* where the invocation stands
    event,              \* lambda_handler's argument
    detail, event_name, user_identity, aws_region, event_time, event_source,
    user_name, resourceKey, resourceValue, slack_message,   \* its locals
    exc,                \* the exception in flight, "" when none
    result,             \* what lambda_handler returned
    extractCalls,       \* calls of extract_resource_details in this invocation
    sendCalls,          \* calls of send_slack_notification in this invocation
    posted,             \* request bodies handed to urlopen in this invocation
    log                 \* the logger calls of this invocation, in order

locals == <<detail, event_name, user_identity, aws_region, event_time, event_source,
            user_name, resourceKey, resourceValue, slack_message>>

vars == <<SLACK_WEBHOOK_URL, pc, event, locals, exc, result, extractCalls, sendCalls,
          posted, log>>

Init ==
    /\ SLACK_WEBHOOK_URL \in Urls
    /\ pc = "idle"
    /\ event = Unbound
    /\ detail = Unbound
    /\ event_name = Unbound
    /\ user_identity = Unbound
    /\ aws_region = Unbound
    /\ event_time = Unbound
    /\ event_source = Unbound
    /\ user_name = Unbound
    /\ resourceKey = Unbound
    /\ resourceValue = Unbound
    /\ slack_message = Unbound
    /\ exc = ""
    /\ result = Unbound
    /\ extractCalls = 0
    /\ sendCalls = 0
    /\ posted = <<>>
    /\ log = <<>>

\* The trigger invokes lambda_handler(event, context); line 97 logs the event
\* (json.dumps of a JSON value cannot fail).
Invoke ==
    /\ pc = "idle"
    /\ \E e \in Events : event' = e
    /\ detail' = Unbound
    /\ event_name' = Unbound
    /\ user_identity' = Unbound
    /\ aws_region' = Unbound
    /\ event_time' = Unbound
    /\ event_source' = Unbound
    /\ user_name' = Unbound
    /\ resourceKey' = Unbound
    /\ resourceValue' = Unbound
    /\ slack_message' = Unbound
    /\ exc' = ""
    /\ result' = Unbound
    /\ extractCalls' = 0
    /\ sendCalls' = 0
    /\ posted' = <<>>
    /\ log' = <<"Received event">>
    /\ pc' = "parse"
    /\ UNCHANGED SLACK_WEBHOOK_URL

\* Lines 100-105.
ParseEnvelope ==
    /\ pc = "parse"
    /\ LET d == Get(event, "detail", EmptyMap)
           name == Get(d.val, "eventName", Str(<<"UnknownEvent">>))
       IN  IF d.exc # "" \/ name.exc # ""
           THEN /\ exc' = (IF d.exc # "" THEN d.exc ELSE name.exc)
                /\ pc' = "except"
                /\ detail' = (IF d.exc # "" THEN Unbound ELSE d.val)
                /\ UNCHANGED <<event_name, user_identity, aws_region, event_time, event_source>>
           ELSE /\ detail' = d.val
                /\ event_name' = name.val
                /\ user_identity' = Get(d.val, "userIdentity", EmptyMap).val
                /\ aws_region' = Get(d.val, "awsRegion", Str(<<"Unknown">>)).val
                /\ event_time' = Get(d.val, "eventTime", Str(<<"Unknown">>)).val
                /\ event_source' = Get(d.val, "eventSource", Str(<<"Unknown">>)).val
                /\ pc' = "resolve"
                /\ exc' = exc
    /\ UNCHANGED <<SLACK_WEBHOOK_URL, event, user_name, resourceKey, resourceValue,
                   slack_message, result, extractCalls, sendCalls, posted, log>>

\* Lines 108-110.
ResolveActor ==
    /\ pc = "resolve"
    /\ LET u == ResolveUser(user_identity)
       IN  IF u.exc # ""
           THEN exc' = u.exc /\ pc' = "except" /\ user_name' = user_name
           ELSE user_name' = u.val /\ pc' = "filter" /\ exc' = exc
    /\ UNCHANGED <<SLACK_WEBHOOK_URL, event, detail, event_name, user_identity, aws_region,
                   event_time, event_source, resourceKey, resourceValue, slack_message,
                   result, extractCalls, sendCalls, posted, log>>

\* Lines 113-115.
Filter ==
    /\ pc = "filter"
    /\ LET pass == PassesFilter(user_name)
       IN  IF pass.exc # ""
           THEN exc' = pass.exc /\ pc' = "except" /\ UNCHANGED <<result, log>>
           ELSE IF pass.val
           THEN pc' = "extract" /\ UNCHANGED <<exc, result, log>>
           ELSE /\ log' = Append(log, "Skipping")
                /\ result' = [statusCode |-> 200, body |-> <<"User not in notify list.">>]
                /\ pc' = "done"
                /\ exc' = exc
    /\ UNCHANGED <<SLACK_WEBHOOK_URL, event, locals, extractCalls, sendCalls, posted>>

\* Line 118.
Extract ==
    /\ pc = "extract"
    /\ extractCalls' = extractCalls + 1
    /\ LET r == extract_resource_details(detail, event_name)
       IN  IF r.exc # ""
           THEN exc' = r.exc /\ pc' = "except" /\ UNCHANGED <<resourceKey, resourceValue>>
           ELSE /\ resourceKey' = r.key
                /\ resourceValue' = r.value
                /\ pc' = "render"
                /\ exc' = exc
    /\ UNCHANGED <<SLACK_WEBHOOK_URL, event, detail, event_name, user_identity, aws_region,
                   event_time, event_source, user_name, slack_message, result, sendCalls,
                   posted, log>>

\* Lines 121-132.
Render ==
    /\ pc = "render"
    /\ slack_message' = [text |-> MessageText(user_name, event_source, event_name, resourceKey, resourceValue, aws_region, event_time)]
    /\ log' = Append(log, "Sending Slack alert")
    /\ pc' = "send"
    /\ UNCHANGED <<SLACK_WEBHOOK_URL, event, detail, event_name, user_identity, aws_region,
                   event_time, event_source, user_name, resourceKey, resourceValue, exc,
                   result, extractCalls, sendCalls, posted>>

\* Line 135 and lines 152-154: send_slack_notification is entered and returns
\* at once when no URL is configured.
SendCheckUrl ==
    /\ pc = "send"
    /\ sendCalls' = sendCalls + 1
    /\ IF ~Truthy(SLACK_WEBHOOK_URL)
       THEN log' = Append(log, "SLACK_WEBHOOK_URL not set") /\ pc' = "return"
       ELSE log' = log /\ pc' = "request"
    /\ UNCHANGED <<SLACK_WEBHOOK_URL, event, locals, exc, result, extractCalls, posted>>

\* Lines 156-160: the Request is built outside the try of line 162, so its
\* ValueError leaves send_slack_notification.
SendBuildRequest ==
    /\ pc = "request"
    /\ IF HasScheme(SLACK_WEBHOOK_URL)
       THEN pc' = "post" /\ exc' = exc
       ELSE pc' = "except" /\ exc' = "ValueError"
    /\ UNCHANGED <<SLACK_WEBHOOK_URL, event, locals, result, extractCalls, sendCalls,
                   posted, log>>

\* Lines 162-166: one urlopen; its failure is logged.
SendPost ==
    /\ pc = "post"
    /\ posted' = Append(posted, DumpMessage(slack_message))
    /\ \E outcome \in PostOutcomes :
         /\ log' = Append(log, IF outcome = "ok" THEN "Slack Notification Sent"
                               ELSE "Error sending Slack notification")
         /\ pc' = AfterPost(outcome)
    /\ UNCHANGED <<SLACK_WEBHOOK_URL, event, locals, exc, result, extractCalls, sendCalls>>

\* Lines 137-143.
ReturnSent ==
    /\ pc = "return"
    /\ result' = [statusCode |-> 200,
                  body |-> <<"{\"message\": \"Notification sent\", \"slack_message\": ">>
                           \o DumpMessage(slack_message) \o <<"}">>]
    /\ pc' = "done"
    /\ UNCHANGED <<SLACK_WEBHOOK_URL, event, locals, exc, extractCalls, sendCalls, posted, log>>

\* Lines 144-146; the body's second fragment stands for str(e).
Catch ==
    /\ pc = "except"
    /\ IF Caught(exc)
       THEN /\ log' = Append(log, "Error processing event")
            /\ result' = [statusCode |-> 500, body |-> <<"Error processing event: ", exc>>]
            /\ pc' = "done"
       ELSE pc' = "raised" /\ UNCHANGED <<result, log>>
    /\ UNCHANGED <<SLACK_WEBHOOK_URL, event, locals, exc, extractCalls, sendCalls, posted>>

Next ==
    \/ Invoke
    \/ ParseEnvelope
    \/ ResolveActor
    \/ Filter
    \/ Extract
    \/ Render
    \/ SendCheckUrl
    \/ SendBuildRequest
    \/ SendPost
    \/ ReturnSent
    \/ Catch

Spec == Init /\ [][Next]_vars

(***************************************************************************)
(* Properties.                                                             *)
(***************************************************************************)
\* The invocation has returned to its caller.
Done == pc = "done"

\* How often the handler logged msg.
Logged(msg) == Cardinality({i \in DOMAIN log : log[i] = msg})

\* The invocation passed the filter of line 113.
PassedFilter == pc \in {"extract", "render", "send", "request", "post", "return"} \/ extractCalls > 0

\* C1: lambda_handler never raises to its caller: no exception leaves the
\* handler, every step short of the return can go on, and the value returned
\* carries statusCode 200 or 500.
C1_NeverRaises ==
    /\ pc # "raised"
    /\ Done => result # Unbound /\ result.statusCode \in {200, 500}
    /\ ~Done => ENABLED Next

\* C1 witness: an event that is no object made event.get raise, and the
\* handler returned 500.
C1_Witness == Done /\ event = Null /\ exc = "AttributeError" /\ result.statusCode = 500

C3_AtMostOnce ==
    /\ Logged("Sending Slack alert") <= 1
    /\ sendCalls <= 1
    /\ Len(posted) <= 1
    /\ Logged("Slack Notification Sent") + Logged("Error sending Slack notification") = Len(posted)

\* C3 witness: the POST failed and the invocation returned after that one
\* attempt.
C3_Witness ==
    /\ Done
    /\ Len(posted) = 1
    /\ Logged("Error sending Slack notification") = 1
    /\ result.statusCode = 200

\* C4: once an invocation has reached the delivery step, it returns
\* statusCode 200 whatever the delivery does, and with no URL configured no
\* POST is attempted.
C4_DeliveryIndependent ==
    /\ (Done /\ sendCalls = 1) => result.statusCode = 200
    /\ ~Truthy(SLACK_WEBHOOK_URL) => posted = <<>>

\* The source of each registered event name's resource value: the field of
\* detail, then the keys down to the value ("[0]" is the first item of a list).
ExpectedPath(name) ==
    CASE name \in {"TerminateInstances", "RunInstances"} ->
           <<"responseElements", "instancesSet", "items", "[0]", "instanceId">>
      [] name \in {"CreateDBInstance", "DeleteDBInstance"} -> <<"responseElements", "dBInstanceIdentifier">>
      [] name \in {"CreateLoadBalancer", "DeleteLoadBalancer"} ->
           <<"responseElements", "loadBalancers", "[0]", "loadBalancerName">>
      [] name \in {"CreateUser", "DeleteUser"} -> <<"responseElements", "user", "userName">>
      [] name \in {"CreateGroup", "DeleteGroup"} -> <<"responseElements", "group", "groupName">>
      [] name \in {"CreateRole", "DeleteRole"} -> <<"responseElements", "role", "roleName">>
      [] name \in {"CreatePolicy", "DeletePolicy"} -> <<"responseElements", "policy", "policyName">>
      [] name \in {"CreateCluster", "DeleteCluster"} -> <<"responseElements", "cluster", "clusterName">>
      [] name \in {"CreateRestApi", "DeleteRestApi"} -> <<"responseElements", "id">>
      [] name \in {"CreatePipeline", "DeletePipeline"} -> <<"responseElements", "pipeline", "pipelineName">>
      [] name \in {"CreateProject", "DeleteProject", "UpdateProject"} ->
           <<"responseElements", "project", "projectName">>
      [] name \in {"CreateApplication", "DeleteApplication"} ->
           <<"responseElements", "application", "applicationName">>
      [] name \in {"CreateHostedZone", "DeleteHostedZone"} -> <<"responseElements", "hostedZone", "id">>
      [] name = "CreateSecret" -> <<"requestParameters", "name">>
      [] name = "DeleteSecret" -> <<"responseElements", "name">>
      [] name \in {"CreateRepository", "DeleteRepository"} ->
           <<"responseElements", "repository", "repositoryName">>
      [] name \in {"CreateAutoScalingGroup", "DeleteAutoScalingGroup"} ->
           <<"responseElements", "autoScalingGroupName">>
      [] OTHER -> <<>>

\* The event name is one of the names of the extraction table.
Registered(name) == name.t = "str" /\ ExpectedPath(Join(name.s)) # <<>>

\* Walking path down from v, every object and list on the way is well formed
\* and a key of the path is absent.
RECURSIVE KeyMissing(_, _)
KeyMissing(v, path) ==
    IF path = <<>> THEN FALSE
    ELSE IF Head(path) = "[0]"
    THEN v.t = "list" /\ v.items # <<>> /\ KeyMissing(v.items[1], Tail(path))
    ELSE v.t = "map" /\ (Head(path) \notin DOMAIN v.m \/ KeyMissing(v.m[Head(path)], Tail(path)))

\* extract_resource_details has been called and has raised.
ExtractRaised == pc = "except" /\ extractCalls = 1 /\ sendCalls = 0

\* extract_resource_details has been called and has returned a pair.
ExtractReturned == extractCalls = 1 /\ resourceKey # Unbound

\* C5: extract_resource_details never raises, whatever the shape of detail.
C5_ExtractNeverRaises == ~ExtractRaised

\* C6: for a registered event name whose expected field is absent from a well
\* formed responseElements / requestParameters, the pair returned is ("", "").
C6_AbsentGivesEmptyPair ==
    (ExtractReturned /\ Registered(event_name) /\ KeyMissing(detail, ExpectedPath(Join(event_name.s)))) =>
        resourceKey = EmptyStr /\ resourceValue = EmptyStr

\* C7: for an event name of no rule, extract_resource_details returns
\* ("", "") and raises nothing, whatever responseElements and requestParameters
\* hold.
C7_UnregisteredGivesEmptyPair ==
    (extractCalls = 1 /\ ~Registered(event_name)) =>
        /\ ~ExtractRaised
        /\ resourceKey = EmptyStr
        /\ resourceValue = EmptyStr

\* C7 witness: an unregistered name with a null responseElements, which any
\* read into it would have failed on.
C7_Witness ==
    /\ ExtractReturned
    /\ event_name = Str(<<"UnknownThing">>)
    /\ "responseElements" \in DOMAIN detail.m
    /\ detail.m["responseElements"] = Null
    /\ resourceKey = EmptyStr /\ resourceValue = EmptyStr

\* r is the part of s after its last colon.
IsAfterLastColon(r, s) ==
    \E i \in 1..Len(s) :
        /\ s[i] = ":"
        /\ r = SubSeq(s, i + 1, Len(s))
        /\ \A k \in 1..Len(r) : r[k] # ":"

\* The actor resolved from the identity value chosen.
ResolvedFrom(chosen) ==
    chosen.t = "str" =>
        IF \E i \in 1..Len(chosen.s) : chosen.s[i] = ":"
        THEN user_name.t = "str" /\ IsAfterLastColon(user_name.s, chosen.s)
        ELSE user_name = chosen

\* The field of the identity, Absent when it has none.
IdentityField(key) ==
    IF key \in DOMAIN user_identity.m THEN user_identity.m[key] ELSE Absent

\* C8 as stated: the actor is resolved from userName when that is present (a
\* string), from principalId when userName is absent.
C8_ActorResolution_AsStated ==
    user_name # Unbound =>
        /\ IdentityField("userName").t = "str" => ResolvedFrom(IdentityField("userName"))
        /\ (IdentityField("userName") = Absent /\ IdentityField("principalId") # Absent) =>
              ResolvedFrom(IdentityField("principalId"))

\* C8 amended: the actor is resolved from userName when that is present and
\* true (not null, not empty), otherwise from principalId, "UnknownUser" when
\* that is absent; a string with a colon resolves to the part after its last
\* colon, any other string to itself.
C8_ActorResolution ==
    user_name # Unbound =>
        IF IdentityField("userName") # Absent /\ Truthy(IdentityField("userName"))
        THEN ResolvedFrom(IdentityField("userName"))
        ELSE IF IdentityField("principalId") # Absent
        THEN ResolvedFrom(IdentityField("principalId"))
        ELSE user_name = Str(<<"UnknownUser">>)

\* C8 witness: a userName with two colons resolved to the part after the last.
C8_Witness ==
    /\ user_name = Str(Marker)
    /\ user_identity.t = "map"
    /\ IdentityField("userName") = Str(<<":", ":">> \o Marker)

\* An envelope field of the event is absent, null or of an unexpected type.
IrregularEnvelope ==
    /\ event.t = "map"
    /\ LET d == IF "detail" \in DOMAIN event.m THEN event.m["detail"] ELSE Absent
       IN  \/ d.t # "map"
           \/ \E k \in {"eventName", "awsRegion", "eventTime", "eventSource"} :
                 k \notin DOMAIN d.m \/ d.m[k].t # "str"
           \/ "userIdentity" \notin DOMAIN d.m
           \/ d.m["userIdentity"].t # "map"
           \/ \A k \in {"userName", "principalId"} :
                 k \notin DOMAIN d.m["userIdentity"].m \/ d.m["userIdentity"].m[k].t # "str"

\* C9: an event with an absent, null or mistyped envelope field is resolved
\* through the defaults and returns statusCode 200, never 500.
C9_EnvelopeDefaults == (Done /\ IrregularEnvelope) => result.statusCode = 200

\* The lines of the rendered message.
MessageLines == Split(slack_message.text, "\n")

\* The rendered message has the resource line for resourceKey.
HasResourceLine ==
    \E i \in 1..Len(MessageLines) :
        /\ Len(MessageLines[i]) >= 2
        /\ MessageLines[i][1] = "U+1F6E0 "
        /\ SubSeq(MessageLines[i], 2, Len(MessageLines[i]))
             = Format(resourceKey) \o <<": U+0060">> \o Format(resourceValue) \o <<"U+0060">>

\* Empty: the empty string, and the values Python takes for false.
NonEmpty(v) == v \notin {EmptyStr, Null, Num(0), EmptyList, EmptyMap}

\* The rendered message has the resource line exactly when resourceKey and
\* resourceValue are both non-empty.
ResourceLineIffBoth ==
    slack_message # Unbound => (HasResourceLine <=> (NonEmpty(resourceKey) /\ NonEmpty(resourceValue)))

\* C10: a message that passed the filter has the resource line exactly when
\* key and value are both non-empty; and an unregistered event name by a
\* matching actor gives one delivery call, no resource line and statusCode 200.
C10_ResourceLine ==
    /\ ResourceLineIffBoth
    /\ (Done /\ PassedFilter /\ ~Registered(event_name)) =>
          /\ sendCalls = 1
          /\ ~HasResourceLine
          /\ result.statusCode = 200

====
